---- MODULE Spec2Model ----
(***************************************************************************)
(* Fantasy draft board: the scoring function (src/src/scoring.py), the     *)
(* scarcity engine (src/src/scarcity.py), the consensus aggregator         *)
(* (src/scripts/combine_projections.py), the market ranking                *)
(* (src/src/rank.py) and the pipeline of src/main.py.                      *)
(*                                                                         *)
(* Numbers.  Python floats are modelled as fixed-point integers counting   *)
(* hundredths (1 = 0.01), so that "round(x, 1)" is a real conversion: the  *)
(* nearest multiple of 10, halves to the even multiple (numpy's round).    *)
(* calculate_points is linear with integer weights, so it is the same      *)
(* operator whatever the unit of its inputs.                               *)
(***************************************************************************)
EXTENDS Integers, Sequences, FiniteSets, TLC

VARIABLES
    pc,                 \* position of the running program
    row,                \* scoring: the row handed to calculate_points
    result,             \* scoring: what calculate_points returned or raised
    df,                 \* scarcity: the player table handed to compute_vorp
    eligibility_file,   \* scarcity: rows of data/espn_eligibility.csv, or None
    eligibility,        \* scarcity: compute_vorp's eligibility dict
    pos_pools,          \* scarcity: compute_vorp's pos_pools
    replacement_levels, \* scarcity: compute_vorp's replacement_levels
    vorp_list,          \* scarcity: compute_vorp's vorp_list (input row order)
    best_pos_list,      \* scarcity: compute_vorp's best_pos_list (input row order)
    out,                \* scarcity: the table compute_vorp returns
    prev,               \* scarcity: the previous run, when the table was re-run
    sources,            \* aggregator: the three source files (fp, fg, br)
    available,          \* aggregator: labels of the sources that loaded, in order
    weights,            \* aggregator: the normalized weights
    master_names,       \* aggregator: the master player list
    rows,               \* aggregator: the output rows built so far
    out_csv,            \* aggregator: data/projections.csv as written
    error,              \* aggregator: the exception combine_projections raised
    adp_file,           \* ranking: rows of data/adp.csv, or not found
    df_adp,             \* ranking: the table merge_adp returns
    df_value,           \* ranking: the table compute_value_score returns
    board,              \* ranking: the board build_draft_board returns
    projections,        \* main: the rows of data/projections.csv
    exclusion_file,     \* main: the names of data/injured_out.csv, or not found
    override_file,      \* main: the rows of data/position_overrides.csv, or not found
    main_df             \* main: its df before the scoring

scoringVars == <<row, result>>
scarcityVars == <<df, eligibility_file, eligibility, pos_pools, replacement_levels,
                  vorp_list, best_pos_list, out, prev>>
aggVars == <<sources, available, weights, master_names, rows, out_csv, error>>
rankVars == <<adp_file, df_adp, df_value, board>>
mainVars == <<projections, exclusion_file, override_file, main_df>>
vars == <<pc, row, result, df, eligibility_file, eligibility, pos_pools,
          replacement_levels, vorp_list, best_pos_list, out, prev,
          sources, available, weights, master_names, rows, out_csv, error,
          adp_file, df_adp, df_value, board,
          projections, exclusion_file, override_file, main_df>>

(***************************************************************************)
(* Bounds of the model (not program constants).                            *)
(***************************************************************************)
\* Number of cells in which a scored row differs from the base row.
MaxChanged == 2
\* Number of rows of the player table.
MaxPlayers == 3
\* Number of rows of the player table that is run twice (RaiseSpec).
MaxRaisePlayers == 2
\* Number of rows of a projection source file.
MaxSourceRows == 2
\* League size.  The repository's league has 12 teams (scarcity.py:3); the
\* starter counts scale with it, and the model checks a league small enough
\* for a table of MaxPlayers rows to fill a slot.
TEAMS == 1

None == [none |-> TRUE]

(***************************************************************************)
(* src/src/scoring.py                                                      *)
(***************************************************************************)
hitter_positions == {"C", "1B", "2B", "3B", "SS", "OF", "CI", "MI", "DH"}
pitcher_positions == {"SP", "RP", "P"}

\* row.get(key, default) of a dict / pandas Series
Get(r, key, default) == IF key \in DOMAIN r THEN r[key] ELSE default

\* what a call returns: a value, or the exception it raised
Returned(v) == [raised |-> "none", value |-> v]
Raised(e) == [raised |-> e, value |-> 0]

\* the keys calculate_points reads with row[...] on each branch
HitterIndexed == {"H", "2B", "3B", "HR", "R", "RBI", "BB", "K", "SB"}
PitcherIndexed == {"IP", "K", "SV", "QS", "HLD"}

\* HitterPoints with a home run counted as three bases
HitterPointsTripleHR(r) ==
    LET singles == r["H"] - r["2B"] - r["3B"] - r["HR"]
        TB == singles + 2 * r["2B"] + 3 * r["3B"] + 3 * r["HR"]
    IN  r["R"] + TB + r["RBI"] + r["BB"] - r["K"] + r["SB"]
        + Get(r, "CYC", 0) * 8 + Get(r, "GSHR", 0) * 4

HitterPoints(r) ==
    LET singles == r["H"] - r["2B"] - r["3B"] - r["HR"]
        TB == singles + 2 * r["2B"] + 3 * r["3B"] + 4 * r["HR"]
    IN  r["R"] * 1
        + TB * 1
        + r["RBI"] * 1
        + r["BB"] * 1
        + r["K"] * (-1)
        + r["SB"] * 1
        + Get(r, "CYC", 0) * 8
        + Get(r, "GSHR", 0) * 4

\* PitcherPoints with IP still weighted 1 (the weight before it became 3)
PitcherPointsIPOne(r) ==
    r["IP"] * 1 + Get(r, "ER", 0) * (-2) + r["K"] + r["SV"] * 5
    - Get(r, "H_allowed", Get(r, "HA", 0)) - Get(r, "BB_issued", Get(r, "BBI", 0))
    + r["QS"] * 2 + Get(r, "CG", 0) * 4 + Get(r, "NH", 0) * 6
    + Get(r, "PG", 0) * 10 + r["HLD"] * 2

PitcherPoints(r) ==
    r["IP"] * 3
    + Get(r, "ER", 0) * (-2)
    + r["K"] * 1
    + r["SV"] * 5
    + Get(r, "H_allowed", Get(r, "HA", 0)) * (-1)
    + Get(r, "BB_issued", Get(r, "BBI", 0)) * (-1)
    + r["QS"] * 2
    + Get(r, "CG", 0) * 4
    + Get(r, "NH", 0) * 6
    + Get(r, "PG", 0) * 10
    + r["HLD"] * 2

calculate_points(r) ==
    IF r["Position"] \in hitter_positions
    THEN IF HitterIndexed \subseteq DOMAIN r
         THEN Returned(HitterPoints(r))
         ELSE Raised("KeyError")
    ELSE IF r["Position"] \in pitcher_positions
    THEN IF PitcherIndexed \subseteq DOMAIN r
         THEN Returned(PitcherPoints(r))
         ELSE Raised("KeyError")
    ELSE Returned(0)

(***************************************************************************)
(* Rows handed to the scoring function: a base row (the two rows of the    *)
(* scoring scenarios, merged) in which at most MaxChanged cells are        *)
(* replaced by another value or removed, at every Position label.          *)
(***************************************************************************)
StatCols == {"H", "2B", "3B", "HR", "R", "RBI", "BB", "K", "SB", "CYC", "GSHR",
             "IP", "ER", "SV", "H_allowed", "BB_issued", "QS", "CG", "NH", "PG",
             "HLD", "HA", "BBI"}

Absent == 0 - 1

BaseCell ==
    [H |-> 150, 2B |-> 30, 3B |-> 2, HR |-> 25, R |-> 90, RBI |-> 95, BB |-> 60,
     K |-> 120, SB |-> 10, CYC |-> Absent, GSHR |-> Absent,
     IP |-> 180, ER |-> 60, SV |-> 0, H_allowed |-> 150, BB_issued |-> 50,
     QS |-> 20, CG |-> 1, NH |-> 0, PG |-> 0, HLD |-> 0,
     HA |-> Absent, BBI |-> Absent]

OtherCells ==
    [H |-> {160, Absent}, 2B |-> {31, Absent}, 3B |-> {3, Absent}, HR |-> {26, Absent},
     R |-> {91, Absent}, RBI |-> {96, Absent}, BB |-> {61, Absent},
     K |-> {200, Absent}, SB |-> {11, Absent}, CYC |-> {1, 0}, GSHR |-> {1, 0},
     IP |-> {181, Absent}, ER |-> {61, Absent}, SV |-> {1, Absent},
     H_allowed |-> {151, Absent}, BB_issued |-> {51, Absent}, QS |-> {21, Absent},
     CG |-> {2, Absent}, NH |-> {1, Absent}, PG |-> {1, Absent}, HLD |-> {1, Absent},
     HA |-> {140}, BBI |-> {40}]

PositionLabels == hitter_positions \cup pitcher_positions \cup {"PIT"}

\* the assignments of cells that differ from the base in at most n columns
RECURSIVE CellChoices(_)
CellChoices(n) ==
    IF n = 0 THEN {BaseCell}
    ELSE LET P == CellChoices(n - 1)
         IN  P \cup UNION {{[cells EXCEPT ![c] = v] : v \in OtherCells[c]} :
                              cells \in P, c \in StatCols}

MakeRow(pos, cells) ==
    LET present == {c \in StatCols : cells[c] # Absent}
    IN  [c \in present \cup {"Position"} |->
            IF c = "Position" THEN pos ELSE cells[c]]

ScoringRows ==
    {MakeRow(pos, cells) : pos \in PositionLabels, cells \in CellChoices(MaxChanged)}

MainIdle ==
    /\ projections = <<>>
    /\ exclusion_file = [found |-> FALSE, names |-> <<>>]
    /\ override_file = [found |-> FALSE, rows |-> <<>>]
    /\ main_df = <<>>

RankIdle ==
    /\ adp_file = [found |-> FALSE, rows |-> <<>>]
    /\ df_adp = <<>>
    /\ df_value = <<>>
    /\ board = <<>>

AggIdle ==
    /\ sources = <<>>
    /\ available = <<>>
    /\ weights = <<>>
    /\ master_names = <<>>
    /\ rows = <<>>
    /\ out_csv = [written |-> FALSE, rows |-> <<>>]
    /\ error = "none"

ScarcityIdle ==
    /\ df = <<>>
    /\ eligibility_file = [found |-> FALSE, rows |-> <<>>]
    /\ eligibility = <<>>
    /\ pos_pools = <<>>
    /\ replacement_levels = <<>>
    /\ vorp_list = <<>>
    /\ best_pos_list = <<>>
    /\ out = <<>>
    /\ prev = None

ScoringInit ==
    /\ pc = "row"
    /\ row \in ScoringRows
    /\ result = None
    /\ ScarcityIdle
    /\ AggIdle
    /\ RankIdle
    /\ MainIdle

\* df.apply(calculate_points, axis=1) on one row
Score ==
    /\ pc = "row"
    /\ result' = calculate_points(row)
    /\ pc' = "scored"
    /\ UNCHANGED row
    /\ UNCHANGED scarcityVars
    /\ UNCHANGED aggVars
    /\ UNCHANGED rankVars
    /\ UNCHANGED mainVars

ScoringNext == Score

ScoringSpec == ScoringInit /\ [][ScoringNext]_vars

(***************************************************************************)
(* src/src/scarcity.py                                                     *)
(***************************************************************************)
STARTERS ==
    [C |-> 1 * TEAMS, 1B |-> 1 * TEAMS, 2B |-> 1 * TEAMS, 3B |-> 1 * TEAMS,
     SS |-> 1 * TEAMS, OF |-> 4 * TEAMS, DH |-> 1 * TEAMS, SP |-> 5 * TEAMS,
     RP |-> 2 * TEAMS]

Range(seq) == {seq[i] : i \in 1..Len(seq)}

\* list(dict.fromkeys(all_pos)): the first occurrence of each entry, in order
RECURSIVE Dedupe(_)
Dedupe(seq) ==
    IF seq = <<>> THEN <<>>
    ELSE LET front == Dedupe(SubSeq(seq, 1, Len(seq) - 1))
             last == seq[Len(seq)]
         IN  IF last \in Range(front) THEN front ELSE Append(front, last)

\* One row of the eligibility file: Eligible_Positions is the list of the
\* non-empty, stripped entries of the comma-joined cell (<<>> for an empty cell).
EligPositions(erow) ==
    LET primary == erow.Primary_Position
        all_pos == (IF primary # "" THEN <<primary>> ELSE <<>>)
                   \o erow.Eligible_Positions
    IN  Dedupe(all_pos)

\* A later row of the file replaces an earlier row of the same Name.
\* file.found is FALSE when read_csv raises FileNotFoundError.
load_eligibility(ef) ==
    IF ~ef.found THEN <<>>
    ELSE LET file == ef.rows
             names == {file[i].Name : i \in 1..Len(file)}
             lastRow(n) == file[CHOOSE i \in 1..Len(file) :
                                  /\ file[i].Name = n
                                  /\ \A j \in (i + 1)..Len(file) : file[j].Name # n]
         IN  [n \in names |-> EligPositions(lastRow(n))]

\* get_all_positions giving a player without an entry the flex slot as well
get_all_positions_flex(player_name, primary_pos, elig) ==
    IF player_name \in DOMAIN elig
    THEN LET positions == elig[player_name]
         IN  IF primary_pos \notin Range(positions)
             THEN <<primary_pos>> \o positions
             ELSE positions
    ELSE <<primary_pos, "DH">>

get_all_positions(player_name, primary_pos, elig) ==
    IF player_name \in DOMAIN elig
    THEN LET positions == elig[player_name]
         IN  IF primary_pos \notin Range(positions)
             THEN <<primary_pos>> \o positions
             ELSE positions
    ELSE <<primary_pos>>

AllPos(table, elig, i) == get_all_positions(table[i].Name, table[i].Position, elig)

\* PoolOf reading the Position of the row in place of the all_pos list
PoolOfPrimary(table, elig, pos, k) ==
    LET hits == SelectSeq(SubSeq(table, 1, k), LAMBDA r : r.Position = pos)
    IN  [j \in 1..Len(hits) |-> hits[j].projected_points]

\* pos_pools[pos] after the first loop: one append per occurrence of pos in
\* the all_pos list of each row, in row order
RECURSIVE PoolOf(_, _, _, _)
PoolOf(table, elig, pos, k) ==
    IF k = 0 THEN <<>>
    ELSE LET hits == SelectSeq(AllPos(table, elig, k), LAMBDA q : q = pos)
         IN  PoolOf(table, elig, pos, k - 1)
             \o [j \in 1..Len(hits) |-> table[k].projected_points]

\* BuildPools without the copy of the OF pool
BuildPoolsOwnDH(table, elig) ==
    [pos \in DOMAIN STARTERS |-> PoolOf(table, elig, pos, Len(table))]

BuildPools(table, elig) ==
    LET built == [pos \in DOMAIN STARTERS |-> PoolOf(table, elig, pos, Len(table))]
    IN  [built EXCEPT !["DH"] = built["OF"]]

\* sorted(points, reverse=True)
RECURSIVE SortedDesc(_)
SortedDesc(points) ==
    IF points = <<>> THEN <<>>
    ELSE LET m == CHOOSE i \in 1..Len(points) :
                     \A j \in 1..Len(points) : points[i] >= points[j]
             rest == [j \in 1..(Len(points) - 1) |->
                         IF j < m THEN points[j] ELSE points[j + 1]]
         IN  <<points[m]>> \o SortedDesc(rest)

\* ReplacementLevel on the pool sorted ascending (reverse=True left out)
ReplacementLevelAscending(pool, num_starters) ==
    LET desc == SortedDesc(pool)
        points == [i \in 1..Len(desc) |-> desc[Len(desc) + 1 - i]]
    IN  IF Len(points) >= num_starters THEN points[num_starters]
        ELSE IF points # <<>> THEN points[Len(points)]
        ELSE 0

ReplacementLevel(pool, num_starters) ==
    LET points == SortedDesc(pool)
    IN  IF Len(points) >= num_starters THEN points[num_starters]
        ELSE IF points # <<>> THEN points[Len(points)]
        ELSE 0

\* ReplacementLevels taking one starter for every slot
ReplacementLevelsOneStarter(pools) ==
    [pos \in DOMAIN STARTERS |-> ReplacementLevel(pools[pos], 1)]

ReplacementLevels(pools) ==
    [pos \in DOMAIN STARTERS |-> ReplacementLevel(pools[pos], STARTERS[pos])]

\* round(x, 1) of a float counted in hundredths
Round1(x) ==
    LET q == x \div 10
        r == x % 10
    IN  IF r < 5 THEN 10 * q
        ELSE IF r > 5 THEN 10 * (q + 1)
        ELSE IF q % 2 = 0 THEN 10 * q ELSE 10 * (q + 1)

\* SlotVorp with the operands swapped
SlotVorpSwapped(points, level) == level - points

SlotVorp(points, level) == points - level

\* BestAfter keeping the smallest slot value ("<" for ">")
RECURSIVE BestAfterMin(_, _, _, _)
BestAfterMin(prow, all_pos, levels, k) ==
    IF k = 0 THEN [is_none |-> TRUE, best_vorp |-> 0, best_pos |-> prow.Position]
    ELSE LET b == BestAfterMin(prow, all_pos, levels, k - 1)
             pos == all_pos[k]
         IN  IF pos \notin DOMAIN levels THEN b
             ELSE LET vorp == SlotVorp(prow.projected_points, levels[pos])
                  IN  IF b.is_none \/ vorp < b.best_vorp
                      THEN [is_none |-> FALSE, best_vorp |-> vorp, best_pos |-> pos]
                      ELSE b

\* BestAfter letting a later slot of equal value take over (">=" for ">")
RECURSIVE BestAfterLast(_, _, _, _)
BestAfterLast(prow, all_pos, levels, k) ==
    IF k = 0 THEN [is_none |-> TRUE, best_vorp |-> 0, best_pos |-> prow.Position]
    ELSE LET b == BestAfterLast(prow, all_pos, levels, k - 1)
             pos == all_pos[k]
         IN  IF pos \notin DOMAIN levels THEN b
             ELSE LET vorp == SlotVorp(prow.projected_points, levels[pos])
                  IN  IF b.is_none \/ vorp >= b.best_vorp
                      THEN [is_none |-> FALSE, best_vorp |-> vorp, best_pos |-> pos]
                      ELSE b

\* the second loop's body: best_vorp and best_pos after scanning the first k
\* entries of all_pos
RECURSIVE BestAfter(_, _, _, _)
BestAfter(prow, all_pos, levels, k) ==
    IF k = 0 THEN [is_none |-> TRUE, best_vorp |-> 0, best_pos |-> prow.Position]
    ELSE LET b == BestAfter(prow, all_pos, levels, k - 1)
             pos == all_pos[k]
         IN  IF pos \notin DOMAIN levels THEN b
             ELSE LET vorp == SlotVorp(prow.projected_points, levels[pos])
                  IN  IF b.is_none \/ vorp > b.best_vorp
                      THEN [is_none |-> FALSE, best_vorp |-> vorp, best_pos |-> pos]
                      ELSE b

Best(table, elig, levels, i) ==
    BestAfter(table[i], AllPos(table, elig, i), levels, Len(AllPos(table, elig, i)))

\* VorpOf giving a player valued at no slot 0.1 in place of 0.0
VorpOfUnvalued(best) == IF ~best.is_none THEN Round1(best.best_vorp) ELSE 10

\* vorp_list.append(round(best_vorp, 1) if best_vorp is not None else 0.0)
VorpOf(best) == IF ~best.is_none THEN Round1(best.best_vorp) ELSE 0

\* df["Eligibility"]: the "/"-joined list, kept as the list
EligibilityOf(table, elig, n) ==
    IF n \in DOMAIN elig THEN elig[n]
    ELSE <<table[CHOOSE i \in 1..Len(table) :
                    /\ table[i].Name = n
                    /\ \A j \in 1..(i - 1) : table[j].Name # n].Position>>

WithVorp(table, elig, vorps, bests) ==
    [i \in 1..Len(table) |->
        [Name |-> table[i].Name, Position |-> table[i].Position,
         projected_points |-> table[i].projected_points,
         VORP |-> vorps[i], Best_Pos |-> bests[i],
         Eligibility |-> EligibilityOf(table, elig, table[i].Name)]]

RowOrders(n) ==
    {f \in [1..n -> 1..n] : \A i, j \in 1..n : f[i] = f[j] => i = j}

\* df.sort_values("VORP", ascending=False): pandas sorts one column with
\* numpy's quicksort, which is not stable, so rows of equal VORP come out in
\* an order the build decides.
SortedByVorp(table) ==
    {[i \in 1..Len(table) |-> table[f[i]]] : f \in
        {g \in RowOrders(Len(table)) :
            \A i \in 1..(Len(table) - 1) : table[g[i]].VORP >= table[g[i + 1]].VORP}}

(***************************************************************************)
(* The tables handed to compute_vorp.                                      *)
(***************************************************************************)
PlayerNames == <<"a", "b", "c", "d", "e">>
TablePositions == {"C", "OF", "RP", "P"}
TablePoints == {100, 254}
RaiseBy == {4, 160}

PlayerTables(maxRows) ==
    UNION {[1..n -> TablePositions \X TablePoints] : n \in 0..maxRows}

MakeTable(cells) ==
    [i \in 1..Len(cells) |->
        [Name |-> PlayerNames[i], Position |-> cells[i][1],
         projected_points |-> cells[i][2]]]

NoFile == [found |-> FALSE, rows |-> <<>>]

ERowA1 == [Name |-> "a", Primary_Position |-> "C", Eligible_Positions |-> <<"OF", "C", "DH">>]
ERowA2 == [Name |-> "a", Primary_Position |-> "", Eligible_Positions |-> <<"RP", "SP", "CI">>]
ERowB1 == [Name |-> "b", Primary_Position |-> "OF", Eligible_Positions |-> <<"RP">>]
ERowB2 == [Name |-> "b", Primary_Position |-> "P", Eligible_Positions |-> <<>>]

EligFiles ==
    {NoFile} \cup {[found |-> TRUE, rows |-> erows] :
                      erows \in {<<>>, <<ERowA1>>, <<ERowA2>>, <<ERowB1>>, <<ERowB2>>,
                                <<ERowA1, ERowB1>>, <<ERowA2, ERowA1>>}}

ScoringIdle ==
    /\ row = None
    /\ result = None

ScarcityInputs(maxRows) ==
    /\ pc = "loaded"
    /\ \E cells \in PlayerTables(maxRows) : df = MakeTable(cells)
    /\ eligibility_file \in EligFiles
    /\ eligibility = <<>>
    /\ pos_pools = <<>>
    /\ replacement_levels = <<>>
    /\ vorp_list = <<>>
    /\ best_pos_list = <<>>
    /\ out = <<>>
    /\ prev = None
    /\ ScoringIdle
    /\ AggIdle
    /\ MainIdle

ScarcityInit == ScarcityInputs(MaxPlayers) /\ RankIdle

RaiseInit == ScarcityInputs(MaxRaisePlayers) /\ RankIdle

compute_vorp ==
    /\ pc = "loaded"
    /\ LET elig == load_eligibility(eligibility_file)
           pools == BuildPools(df, elig)
           levels == ReplacementLevels(pools)
           bests == [i \in 1..Len(df) |-> Best(df, elig, levels, i)]
           vorps == [i \in 1..Len(df) |-> VorpOf(bests[i])]
           poss == [i \in 1..Len(df) |-> bests[i].best_pos]
       IN  /\ eligibility' = elig
           /\ pos_pools' = pools
           /\ replacement_levels' = levels
           /\ vorp_list' = vorps
           /\ best_pos_list' = poss
           /\ out' \in SortedByVorp(WithVorp(df, elig, vorps, poss))
    /\ pc' = "vorp"
    /\ UNCHANGED <<df, eligibility_file, prev>>
    /\ UNCHANGED scoringVars
    /\ UNCHANGED aggVars
    /\ UNCHANGED rankVars
    /\ UNCHANGED mainVars

\* The same table with one player's projected points raised, handed to
\* compute_vorp again; prev keeps the first run.
RaisePoints ==
    /\ pc = "vorp"
    /\ prev = None
    /\ \E i \in 1..Len(df), d \in RaiseBy :
          df' = [df EXCEPT ![i].projected_points = @ + d]
          /\ prev' = [raised |-> i, df |-> df,
                      replacement_levels |-> replacement_levels,
                      vorp_list |-> vorp_list]
    /\ pc' = "loaded"
    /\ eligibility' = <<>>
    /\ pos_pools' = <<>>
    /\ replacement_levels' = <<>>
    /\ vorp_list' = <<>>
    /\ best_pos_list' = <<>>
    /\ out' = <<>>
    /\ UNCHANGED eligibility_file
    /\ UNCHANGED scoringVars
    /\ UNCHANGED aggVars
    /\ UNCHANGED rankVars
    /\ UNCHANGED mainVars

Next == compute_vorp

Spec == ScarcityInit /\ [][Next]_vars

RaiseNext == compute_vorp \/ RaisePoints

RaiseSpec == RaiseInit /\ [][RaiseNext]_vars

(***************************************************************************)
(* src/scripts/combine_projections.py                                      *)
(***************************************************************************)
\* the configured weights 0.45, 0.35, 0.20, counted in hundredths
WEIGHTS == [fp |-> 45, fg |-> 35, br |-> 20]

FUZZY_THRESHOLD == 88

BATTER_STATS == <<"H", "2B", "3B", "HR", "R", "RBI", "BB", "K", "SB">>
PITCHER_STATS == <<"IP", "ER", "K_pitch", "QS", "SV", "HLD", "H_allowed",
                   "BB_issued", "CG", "NH", "PG", "GS">>
\* RARE_EVENTS without the two pitching events
RARE_EVENTS_batting == {"CYC", "GSHR"}

RARE_EVENTS == {"CYC", "GSHR", "NH", "PG"}

\* the order in which combine_projections lists the three sources
SourceOrder == <<"fp", "fg", "br">>

PitcherTags == {"SP", "RP", "P", "PIT"}

final_cols ==
    <<"Name", "Position",
      "H", "2B", "3B", "HR", "R", "RBI", "BB", "K", "SB", "CYC", "GSHR",
      "IP", "ER", "K_pitch", "QS", "SV", "HLD", "GS", "H_allowed", "BB_issued",
      "CG", "NH", "PG">>

\* A cell of a stat column: a number, or NaN (an empty or non-numeric cell).
Num(v) == [nan |-> FALSE, v |-> v]
NaN == [nan |-> TRUE, v |-> 0]
\* An empty Position cell is read as NaN: truthy, and equal to no string.
NaNPosition == "nan"

RECURSIVE SumSeq(_)
SumSeq(nums) == IF nums = <<>> THEN 0 ELSE nums[1] + SumSeq(Tail(nums))

\* The scorer of thefuzz (process.extractOne's default) on the names of the
\* model: identical names score 100, "A" and "A." 95, "A" and "Ax" 88,
\* "A." and "Ax" 87, any other pair 40.
Similarity(a, b) ==
    IF a = b THEN 100
    ELSE IF {a, b} = {"A", "A."} THEN 95
    ELSE IF {a, b} = {"A", "Ax"} THEN 88
    ELSE IF {a, b} = {"A.", "Ax"} THEN 87
    ELSE 40

\* fuzz_process.extractOne: the first candidate of the highest score, or
\* nothing when there is no candidate
extractOne(name, candidates) ==
    IF candidates = <<>> THEN [found |-> FALSE, choice |-> "", score |-> 0]
    ELSE LET best == CHOOSE i \in 1..Len(candidates) :
                        /\ \A j \in 1..Len(candidates) :
                              Similarity(name, candidates[i]) >= Similarity(name, candidates[j])
                        /\ \A j \in 1..(i - 1) :
                              Similarity(name, candidates[j]) < Similarity(name, candidates[i])
         IN  [found |-> TRUE, choice |-> candidates[best],
              score |-> Similarity(name, candidates[best])]

\* fuzzy_match_name asking for a score above the threshold
fuzzy_match_name_above(name, candidates) ==
    LET r == extractOne(name, candidates)
    IN  IF r.found /\ r.score > FUZZY_THRESHOLD
        THEN [matched |-> TRUE, name |-> r.choice]
        ELSE [matched |-> FALSE, name |-> ""]

fuzzy_match_name(name, candidates) ==
    LET r == extractOne(name, candidates)
    IN  IF r.found /\ r.score >= FUZZY_THRESHOLD
        THEN [matched |-> TRUE, name |-> r.choice]
        ELSE [matched |-> FALSE, name |-> ""]

\* normalize_weights with the total taken over every configured source
normalize_weights_all(available_sources) ==
    LET total == WEIGHTS["fp"] + WEIGHTS["fg"] + WEIGHTS["br"]
    IN  [s \in Range(available_sources) |-> [num |-> WEIGHTS[s], den |-> total]]

\* the weight of source s is the fraction num / den
normalize_weights(available_sources) ==
    LET total == SumSeq([i \in 1..Len(available_sources) |->
                            WEIGHTS[available_sources[i]]])
    IN  [s \in Range(available_sources) |-> [num |-> WEIGHTS[s], den |-> total]]

NameList(table) == [i \in 1..Len(table.rows) |-> table.rows[i].Name]

HasRow(table, name) == \E i \in 1..Len(table.rows) : table.rows[i].Name = name

\* df[df["Name"] == name].iloc[0]
FirstRow(table, name) ==
    table.rows[CHOOSE i \in 1..Len(table.rows) :
                  /\ table.rows[i].Name = name
                  /\ \A j \in 1..(i - 1) : table.rows[j].Name # name]

\* the sources infer_position does not skip, and their row for the name
HasPositionRow(srcs, s, name) ==
    /\ srcs[s].found
    /\ "Position" \in srcs[s].columns
    /\ HasRow(srcs[s], name)

\* the first source, in the order of the loop, among those of a set
FirstSource(labels) ==
    SourceOrder[CHOOSE i \in 1..Len(SourceOrder) :
                   /\ SourceOrder[i] \in labels
                   /\ \A j \in 1..(i - 1) : SourceOrder[j] \notin labels]

infer_position(srcs, name) ==
    LET Concrete(s) ==
            /\ HasPositionRow(srcs, s, name)
            /\ FirstRow(srcs[s], name).Position # ""
            /\ FirstRow(srcs[s], name).Position \notin {"BAT", "PIT", ""}
        Labelled(s) == HasPositionRow(srcs, s, name)
        concrete == {s \in Range(SourceOrder) : Concrete(s)}
        labelled == {s \in Range(SourceOrder) : Labelled(s)}
    IN  IF concrete # {}
        THEN FirstRow(srcs[FirstSource(concrete)], name).Position
        ELSE IF labelled # {}
        THEN FirstRow(srcs[FirstSource(labelled)], name).Position
        ELSE ""

IsPitcher(srcs, name, pos) ==
    \/ pos \in PitcherTags
    \/ /\ pos = ""
       /\ \E s \in Range(SourceOrder) :
             /\ srcs[s].found
             /\ HasRow(srcs[s], name)
             /\ Get(FirstRow(srcs[s], name), "Position", "") \in PitcherTags

CleanPosition(pos) == IF pos \in {"BAT", ""} THEN "OF" ELSE pos

\* pd.to_numeric(src_row.get(stat, np.nan), errors="coerce") of the row the
\* name matches in source s
MatchedCell(srcs, s, name, stat) ==
    LET match == fuzzy_match_name(name, NameList(srcs[s]))
    IN  IF ~match.matched THEN NaN
        ELSE Get(FirstRow(srcs[s], match.name), stat, NaN)

\* round(num / den, 1) of a quotient counted in hundredths
RoundQuot1(num, den) ==
    LET d == 10 * den
        q == num \div d
        r == num % d
    IN  IF 2 * r < d THEN 10 * q
        ELSE IF 2 * r > d THEN 10 * (q + 1)
        ELSE IF q % 2 = 0 THEN 10 * q ELSE 10 * (q + 1)

\* Weighted counting every source the name matches, with or without the stat
WeightedAllMatched(srcs, avail, name, stat) ==
    SelectSeq(avail, LAMBDA s : fuzzy_match_name(name, NameList(srcs[s])).matched)

\* the sources whose weight enters stat_weights[stat]
Weighted(srcs, avail, name, stat) ==
    SelectSeq(avail, LAMBDA s : ~MatchedCell(srcs, s, name, stat).nan)

\* row[stat] after the averaging loop: stat_vals holds val * w, stat_weights w,
\* with w the fraction num / den
AveragedStat(srcs, avail, w, name, stat) ==
    LET with_data == SelectSeq(avail, LAMBDA s : ~MatchedCell(srcs, s, name, stat).nan)
        counted == Weighted(srcs, avail, name, stat)
    IN  IF counted = <<>> THEN 0
        ELSE LET den == w[counted[1]].den
                 sum_vals == SumSeq([i \in 1..Len(with_data) |->
                                 MatchedCell(srcs, with_data[i], name, stat).v
                                     * w[with_data[i]].num])
                 total_w == SumSeq([i \in 1..Len(counted) |-> w[counted[i]].num])
             IN  \* (sum_vals / den) / (total_w / den)
                 RoundQuot1(sum_vals * den, total_w * den)

CombinedRow(srcs, avail, w, name) ==
    LET pos == infer_position(srcs, name)
        pitcher == IsPitcher(srcs, name, pos)
        stat_cols == IF pitcher THEN PITCHER_STATS ELSE BATTER_STATS
    IN  [c \in Range(final_cols) |->
            IF c = "Name" THEN name
            ELSE IF c = "Position" THEN CleanPosition(pos)
            ELSE IF c \in RARE_EVENTS THEN 0
            ELSE IF (~pitcher /\ c = "K_pitch") \/ (pitcher /\ c = "K") THEN 0
            ELSE IF c \in Range(stat_cols) THEN AveragedStat(srcs, avail, w, name, c)
            ELSE 0]

Available(srcs) == SelectSeq(SourceOrder, LAMBDA s : srcs[s].found)

\* the guard "if not available" reading the wrong way round
SomeSources(avail) == avail # <<>>

NoSources(avail) == avail = <<>>

\* the master list taken from the last available source
MasterNamesLast(srcs, avail) == NameList(srcs[avail[Len(avail)]])

MasterNames(srcs, avail) == NameList(srcs[avail[1]])

(***************************************************************************)
(* The source files handed to combine_projections: each file is missing or *)
(* holds up to MaxSourceRows rows of its catalogue.  FantasyPros carries   *)
(* Position, H, IP, NH and CYC; FanGraphs Position, H, IP and K_pitch;     *)
(* BBRef no Position and no H.  Values count hundredths.                   *)
(***************************************************************************)
FpRows ==
    {[Name |-> "A", Position |-> "OF", H |-> Num(1000), IP |-> NaN, NH |-> NaN,
      CYC |-> Num(100)],
     [Name |-> "B", Position |-> "SP", H |-> NaN, IP |-> Num(1800), NH |-> Num(100),
      CYC |-> NaN],
     [Name |-> "A.", Position |-> "BAT", H |-> Num(1100), IP |-> NaN, NH |-> NaN,
      CYC |-> Num(0)]}

FgRows ==
    {[Name |-> "Ax", Position |-> "PIT", H |-> NaN, IP |-> Num(1700), K_pitch |-> Num(2000)],
     [Name |-> "B", Position |-> NaNPosition, H |-> Num(1150), IP |-> Num(1850),
      K_pitch |-> Num(1900)],
     [Name |-> "A", Position |-> "1B", H |-> Num(1100), IP |-> NaN, K_pitch |-> NaN]}

BrRows ==
    {[Name |-> "B", IP |-> Num(1900), NH |-> Num(0), K_pitch |-> Num(2100)],
     [Name |-> "A.", IP |-> Num(50), NH |-> Num(100), K_pitch |-> Num(60)]}

NotFound == [found |-> FALSE, columns |-> {}, rows |-> <<>>]

SourceFiles(columns, catalogue) ==
    {NotFound} \cup
    {[found |-> TRUE, columns |-> columns, rows |-> r] :
        r \in UNION {[1..n -> catalogue] : n \in 0..MaxSourceRows}}

AggInit ==
    /\ pc = "sources"
    /\ sources \in [fp : SourceFiles({"Name", "Position", "H", "IP", "NH", "CYC"}, FpRows),
                    fg : SourceFiles({"Name", "Position", "H", "IP", "K_pitch"}, FgRows),
                    br : SourceFiles({"Name", "IP", "NH", "K_pitch"}, BrRows)]
    /\ available = <<>>
    /\ weights = <<>>
    /\ master_names = <<>>
    /\ rows = <<>>
    /\ out_csv = [written |-> FALSE, rows |-> <<>>]
    /\ error = "none"
    /\ ScoringIdle
    /\ ScarcityIdle
    /\ RankIdle
    /\ MainIdle

\* load_source three times, then the check that something loaded
LoadSources ==
    /\ pc = "sources"
    /\ available' = Available(sources)
    /\ IF NoSources(Available(sources))
       THEN pc' = "failed" /\ error' = "RuntimeError"
       ELSE pc' = "available" /\ error' = error
    /\ UNCHANGED <<sources, weights, master_names, rows, out_csv>>
    /\ UNCHANGED <<scoringVars, scarcityVars, rankVars>>
    /\ UNCHANGED mainVars

\* the weights and the master player list
NormalizeWeights ==
    /\ pc = "available"
    /\ weights' = normalize_weights(available)
    /\ master_names' = MasterNames(sources, available)
    /\ pc' = "rows"
    /\ UNCHANGED <<sources, available, rows, out_csv, error>>
    /\ UNCHANGED <<scoringVars, scarcityVars, rankVars>>
    /\ UNCHANGED mainVars

\* one iteration of "for name in master_names"
BuildRow ==
    /\ pc = "rows"
    /\ Len(rows) < Len(master_names)
    /\ rows' = Append(rows, CombinedRow(sources, available, weights,
                                        master_names[Len(rows) + 1]))
    /\ UNCHANGED <<pc, sources, available, weights, master_names, out_csv, error>>
    /\ UNCHANGED <<scoringVars, scarcityVars, rankVars>>
    /\ UNCHANGED mainVars

\* df_out.to_csv(out_path) and the return
SaveProjections ==
    /\ pc = "rows"
    /\ Len(rows) = Len(master_names)
    /\ out_csv' = [written |-> TRUE, rows |-> rows]
    /\ pc' = "saved"
    /\ UNCHANGED <<sources, available, weights, master_names, rows, error>>
    /\ UNCHANGED <<scoringVars, scarcityVars, rankVars>>
    /\ UNCHANGED mainVars

AggNext == LoadSources \/ NormalizeWeights \/ BuildRow \/ SaveProjections

AggSpec == AggInit /\ [][AggNext]_vars

(***************************************************************************)
(* Scoring function                                                        *)
(***************************************************************************)
\* a stat of the scored row, 0 when the row does not have it
Stat(key) == IF key \in DOMAIN row THEN row[key] ELSE 0

HitterRowScored ==
    /\ pc = "scored"
    /\ row["Position"] \in {"C", "1B", "2B", "3B", "SS", "OF", "CI", "MI", "DH"}
    /\ {"H", "2B", "3B", "HR", "R", "RBI", "BB", "K", "SB"} \subseteq DOMAIN row

ScenarioHitter ==
    [Position |-> "OF", H |-> 150, 2B |-> 30, 3B |-> 2, HR |-> 25, R |-> 90,
     RBI |-> 95, BB |-> 60, K |-> 120, SB |-> 10]

HitterCols == {"Position", "H", "2B", "3B", "HR", "R", "RBI", "BB", "K", "SB", "CYC", "GSHR"}

\* C4: a row at a hitter position scores R + TB + RBI + BB - K + SB + 8*CYC +
\* 4*GSHR with TB = (H - 2B - 3B - HR) + 2*2B + 3*3B + 4*HR, and the scenario
\* hitter row at OF scores 394.
C4_HitterFormula ==
    HitterRowScored =>
        /\ result.raised = "none"
        /\ LET TB == (Stat("H") - Stat("2B") - Stat("3B") - Stat("HR"))
                     + 2 * Stat("2B") + 3 * Stat("3B") + 4 * Stat("HR")
           IN  result.value = Stat("R") + TB + Stat("RBI") + Stat("BB") - Stat("K")
                              + Stat("SB") + 8 * Stat("CYC") + 4 * Stat("GSHR")
        /\ ([c \in DOMAIN row \cap HitterCols |-> row[c]] = ScenarioHitter
               => result.value = 394)

C4_Witness ==
    /\ HitterRowScored
    /\ [c \in DOMAIN row \cap HitterCols |-> row[c]] = ScenarioHitter
    /\ result = [raised |-> "none", value |-> 394]

PitcherCols == {"Position", "IP", "ER", "K", "SV", "H_allowed", "BB_issued", "QS",
                "CG", "NH", "PG", "HLD"}

PitcherRowScored ==
    /\ pc = "scored"
    /\ row["Position"] \in {"SP", "RP", "P"}

ScenarioPitcher ==
    [IP |-> 180, ER |-> 60, K |-> 200, SV |-> 0, H_allowed |-> 150, BB_issued |-> 50,
     QS |-> 20, CG |-> 1, NH |-> 0, PG |-> 0, HLD |-> 0]

\* C5: a row at a pitcher position that carries the eleven pitcher stats
\* scores 3*IP - 2*ER + K - H_allowed - BB_issued + 5*SV + 2*QS + 4*CG + 6*NH
\* + 10*PG + 2*HLD, and the scenario pitcher row scores 464.
C5_PitcherFormula ==
    (PitcherRowScored /\ PitcherCols \subseteq DOMAIN row) =>
        /\ result.raised = "none"
        /\ result.value = 3 * row["IP"] - 2 * row["ER"] + row["K"] - row["H_allowed"]
                          - row["BB_issued"] + 5 * row["SV"] + 2 * row["QS"]
                          + 4 * row["CG"] + 6 * row["NH"] + 10 * row["PG"]
                          + 2 * row["HLD"]
        /\ ([c \in PitcherCols \ {"Position"} |-> row[c]] = ScenarioPitcher
               => result.value = 464)

C5_Witness ==
    /\ PitcherRowScored
    /\ PitcherCols \subseteq DOMAIN row
    /\ [c \in PitcherCols \ {"Position"} |-> row[c]] = ScenarioPitcher
    /\ result = [raised |-> "none", value |-> 464]

\* C6: scoring a pitcher row never fails because a stat is absent: the row
\* scores as if every missing stat were 0 (allowed hits and issued walks read
\* from either spelling of the column).
C6_MissingStatScoresZero ==
    PitcherRowScored =>
        /\ result.raised = "none"
        /\ result.value =
              3 * Stat("IP") - 2 * Stat("ER") + Stat("K")
              - (IF "H_allowed" \in DOMAIN row THEN row["H_allowed"] ELSE Stat("HA"))
              - (IF "BB_issued" \in DOMAIN row THEN row["BB_issued"] ELSE Stat("BBI"))
              + 5 * Stat("SV") + 2 * Stat("QS") + 4 * Stat("CG") + 6 * Stat("NH")
              + 10 * Stat("PG") + 2 * Stat("HLD")

(***************************************************************************)
(* Scarcity engine                                                         *)
(***************************************************************************)
PoolMembers(pool) == {pool[i] : i \in 1..Len(pool)}
CountAbove(pool, v) == Cardinality({i \in 1..Len(pool) : pool[i] > v})
CountAtLeast(pool, v) == Cardinality({i \in 1..Len(pool) : pool[i] >= v})

\* C1: the replacement level of a slot is the starterCount-th largest value
\* of its pool when the pool has at least starterCount values, the minimum of
\* the pool when it is non-empty but smaller, and 0 when the pool is empty.
C1_ReplacementLevel ==
    pc = "vorp" =>
        \A pos \in DOMAIN STARTERS :
            LET pool == pos_pools[pos]
                n == STARTERS[pos]
                level == replacement_levels[pos]
            IN  /\ Len(pool) >= n =>
                      /\ level \in PoolMembers(pool)
                      /\ CountAbove(pool, level) < n
                      /\ CountAtLeast(pool, level) >= n
                /\ (0 < Len(pool) /\ Len(pool) < n) =>
                      /\ level \in PoolMembers(pool)
                      /\ \A v \in PoolMembers(pool) : level <= v
                /\ Len(pool) = 0 => level = 0

\* a full pool whose starterCount-th largest value is neither its
\* starterCount-th smallest nor its mean, beside a short pool and an empty one
C1_Witness ==
    /\ pc = "vorp"
    /\ \E pos \in DOMAIN STARTERS :
          /\ Len(pos_pools[pos]) >= STARTERS[pos]
          /\ STARTERS[pos] >= 2
          /\ CountAtLeast(pos_pools[pos], replacement_levels[pos]) = Len(pos_pools[pos])
          /\ CountAbove(pos_pools[pos], replacement_levels[pos]) > 0
    /\ \E pos \in DOMAIN STARTERS :
          /\ Len(pos_pools[pos]) > STARTERS[pos]
          /\ CountAbove(pos_pools[pos], replacement_levels[pos]) = STARTERS[pos] - 1
          /\ CountAtLeast(pos_pools[pos], replacement_levels[pos]) < Len(pos_pools[pos])
    /\ \E pos \in DOMAIN STARTERS :
          0 < Len(pos_pools[pos]) /\ Len(pos_pools[pos]) < STARTERS[pos]
    /\ \E pos \in DOMAIN STARTERS : Len(pos_pools[pos]) = 0

\* the starter slots player i is eligible for, and the value of each
StarterSlots(i) == Range(AllPos(df, eligibility, i)) \cap DOMAIN STARTERS
SlotValue(i, pos) == df[i].projected_points - replacement_levels[pos]

BestPosAttainsMax(i) ==
    /\ best_pos_list[i] \in StarterSlots(i)
    /\ \A pos \in StarterSlots(i) : SlotValue(i, best_pos_list[i]) >= SlotValue(i, pos)

\* C2 as stated: the VORP of a player (with a starter slot to be valued at)
\* equals the maximum over the eligible slots of points minus replacement
\* level, and Best_Pos attains it.
C2_VorpIsMax ==
    pc = "vorp" =>
        \A i \in 1..Len(df) :
            StarterSlots(i) # {} =>
                /\ BestPosAttainsMax(i)
                /\ vorp_list[i] = SlotValue(i, best_pos_list[i])

\* C2 amended: the VORP is that maximum rounded to one decimal (a multiple of
\* 0.1 at most 0.05 away from it), and Best_Pos attains the maximum.
C2_VorpIsRoundedMax ==
    pc = "vorp" =>
        \A i \in 1..Len(df) :
            StarterSlots(i) # {} =>
                /\ BestPosAttainsMax(i)
                /\ vorp_list[i] % 10 = 0
                /\ vorp_list[i] - SlotValue(i, best_pos_list[i]) \in (0 - 5)..5

\* a player with two starter slots of different value whose best slot is not
\* the primary position and whose VORP is not the unrounded maximum
C2_Witness ==
    /\ pc = "vorp"
    /\ \E i \in 1..Len(df) :
          /\ \E p1, p2 \in StarterSlots(i) : SlotValue(i, p1) # SlotValue(i, p2)
          /\ best_pos_list[i] # df[i].Position
          /\ vorp_list[i] # SlotValue(i, best_pos_list[i])

IsRerun == pc = "vorp" /\ prev # None

OldSlotValue(pos) ==
    prev.df[prev.raised].projected_points - prev.replacement_levels[pos]

\* C3 as stated: after p's points are raised and compute_vorp has run again,
\* points minus replacement level is strictly larger for every slot p is
\* eligible for, and p's VORP has not decreased.
C3_StrictlyIncreases ==
    IsRerun =>
        /\ \A pos \in StarterSlots(prev.raised) :
              SlotValue(prev.raised, pos) > OldSlotValue(pos)
        /\ vorp_list[prev.raised] >= prev.vorp_list[prev.raised]

\* C3 amended: points minus replacement level does not decrease for any slot
\* p is eligible for, strictly increases for every slot where it was not 0
\* (p was not exactly at the replacement level), and p's VORP does not
\* decrease.
C3_NeverDecreases ==
    IsRerun =>
        /\ \A pos \in StarterSlots(prev.raised) :
              /\ SlotValue(prev.raised, pos) >= OldSlotValue(pos)
              /\ OldSlotValue(pos) # 0 => SlotValue(prev.raised, pos) > OldSlotValue(pos)
        /\ vorp_list[prev.raised] >= prev.vorp_list[prev.raised]

\* the raised player sets the replacement level of a slot, which moves with
\* the raise, and is valued higher than before at another slot
C3_Witness ==
    /\ IsRerun
    /\ \E pos \in StarterSlots(prev.raised) :
          /\ replacement_levels[pos] > prev.replacement_levels[pos]
          /\ SlotValue(prev.raised, pos) = OldSlotValue(pos)
    /\ \E pos \in StarterSlots(prev.raised) :
          SlotValue(prev.raised, pos) > OldSlotValue(pos)
    /\ vorp_list[prev.raised] > prev.vorp_list[prev.raised]

(***************************************************************************)
(* Consensus aggregator                                                    *)
(***************************************************************************)
SourceLabels == {"fp", "fg", "br"}
FoundLabels == {s \in SourceLabels : sources[s].found}
ConfiguredWeight(s) == IF s = "fp" THEN 45 ELSE IF s = "fg" THEN 35 ELSE 20
WeightIfIn(S, s) == IF s \in S THEN ConfiguredWeight(s) ELSE 0
ConfiguredTotal(S) == WeightIfIn(S, "fp") + WeightIfIn(S, "fg") + WeightIfIn(S, "br")

\* the sum of the effective weights as one fraction
EffectiveSum ==
    LET frac(s) == IF s \in DOMAIN weights THEN weights[s] ELSE [num |-> 0, den |-> 1]
        a == frac("fp")
        b == frac("fg")
        c == frac("br")
    IN  [num |-> a.num * b.den * c.den + b.num * a.den * c.den + c.num * a.den * b.den,
         den |-> a.den * b.den * c.den]

\* C7: once the weights are computed, exactly the available sources have an
\* effective weight, each is configuredWeight / (sum of the configured
\* weights of the available sources), and the effective weights sum to 1.
C7_WeightsNormalized ==
    pc \in {"rows", "saved"} =>
        /\ FoundLabels # {}
        /\ DOMAIN weights = FoundLabels
        /\ \A s \in FoundLabels :
              /\ weights[s].den # 0
              /\ weights[s].num * ConfiguredTotal(FoundLabels)
                    = ConfiguredWeight(s) * weights[s].den
        /\ EffectiveSum.num = EffectiveSum.den

\* two of the three sources loaded and their weights were redistributed
C7_Witness ==
    /\ pc = "rows"
    /\ FoundLabels = {"fp", "br"}
    /\ weights["fp"] = [num |-> 45, den |-> 65]
    /\ weights["br"] = [num |-> 20, den |-> 65]

\* C8: with no source available the run fails with an error before any
\* weight is computed and produces no row and no file; with a source
\* available it does not fail with that error.
C8_NoSourcesFails ==
    /\ (FoundLabels = {} /\ pc # "sources") =>
          /\ pc = "failed"
          /\ error = "RuntimeError"
          /\ DOMAIN weights = {}
          /\ Len(rows) = 0
          /\ ~out_csv.written
    /\ FoundLabels # {} => (pc # "failed" /\ error = "none")

C8_Witness ==
    /\ FoundLabels = {}
    /\ pc = "failed"
    /\ error = "RuntimeError"

FirstFound ==
    IF sources["fp"].found THEN "fp" ELSE IF sources["fg"].found THEN "fg" ELSE "br"

\* C9: the output has one row per name of the master list, in its order, and
\* the master list is the name list of the first available source in the
\* order fp, fg, br, whether or not the other sources match the name.
C9_OneRowPerMasterName ==
    /\ pc \in {"rows", "saved"} =>
          /\ Len(master_names) = Len(sources[FirstFound].rows)
          /\ \A i \in 1..Len(master_names) :
                master_names[i] = sources[FirstFound].rows[i].Name
          /\ Len(rows) <= Len(master_names)
          /\ \A i \in 1..Len(rows) : rows[i]["Name"] = master_names[i]
    /\ pc = "saved" =>
          /\ out_csv.written
          /\ Len(out_csv.rows) = Len(master_names)
          /\ \A i \in 1..Len(master_names) : out_csv.rows[i]["Name"] = master_names[i]

Unmatched(name, s) == ~fuzzy_match_name(name, NameList(sources[s])).matched

\* the first source is missing, the master list comes from the next one and
\* names a player twice and a player another available source does not match
C9_Witness ==
    /\ pc = "saved"
    /\ ~sources["fp"].found
    /\ sources["fg"].found
    /\ sources["br"].found
    /\ Len(out_csv.rows) = 2
    /\ master_names[1] = master_names[2]
    /\ \E i \in 1..Len(master_names) : Unmatched(master_names[i], "br")

\* the sources that contribute to a statistic of a master-list player: the
\* name matches a row, and the row has a number in that column
Contributes(name, s, stat) ==
    /\ s \in FoundLabels
    /\ ~Unmatched(name, s)
    /\ LET r == FirstRow(sources[s], fuzzy_match_name(name, NameList(sources[s])).name)
       IN  stat \in DOMAIN r /\ ~r[stat].nan

ContributedValue(name, s, stat) ==
    FirstRow(sources[s], fuzzy_match_name(name, NameList(sources[s])).name)[stat].v

\* numerator and denominator of the weighted mean (the effective weights of
\* a run share one denominator, which cancels)
MeanNum(name, stat) ==
    LET term(s) == IF Contributes(name, s, stat)
                   THEN ContributedValue(name, s, stat) * weights[s].num ELSE 0
    IN  term("fp") + term("fg") + term("br")

MeanDen(name, stat) ==
    LET term(s) == IF Contributes(name, s, stat) THEN weights[s].num ELSE 0
    IN  term("fp") + term("fg") + term("br")

Abs(x) == IF x < 0 THEN 0 - x ELSE x

\* v is num / den rounded to one decimal: a multiple of 0.1 within 0.05
IsWeightedMean(v, name, stat) ==
    IF MeanDen(name, stat) = 0 THEN v = 0
    ELSE /\ v % 10 = 0
         /\ 2 * Abs(v * MeanDen(name, stat) - MeanNum(name, stat)) <= 10 * MeanDen(name, stat)

RoleStats(name) ==
    IF IsPitcher(sources, name, infer_position(sources, name))
    THEN {"IP", "ER", "K_pitch", "QS", "SV", "HLD", "H_allowed", "BB_issued", "CG",
          "NH", "PG", "GS"}
    ELSE {"H", "2B", "3B", "HR", "R", "RBI", "BB", "K", "SB"}

\* C10 as stated: every statistic of the player's role is the weighted mean,
\* rounded to one decimal, over the sources that match the player and have a
\* number for it, and 0 when there is none.
C10_EveryRoleStatAveraged ==
    \A i \in 1..Len(rows) :
        \A stat \in RoleStats(master_names[i]) :
            IsWeightedMean(rows[i][stat], master_names[i], stat)

\* C10 amended: that holds of every statistic of the role but the rare
\* events NH and PG, which are 0 whatever the sources say.
C10_RoleStatAveragedButRare ==
    \A i \in 1..Len(rows) :
        \A stat \in RoleStats(master_names[i]) :
            IF stat \in {"NH", "PG"} THEN rows[i][stat] = 0
            ELSE IsWeightedMean(rows[i][stat], master_names[i], stat)

\* two sources give different numbers for a statistic, a third source that
\* matches the player has no number for it, and the mean is not a multiple
\* of 0.1 before rounding
C10_Witness ==
    /\ pc = "saved"
    /\ \E i \in 1..Len(rows) :
          \E stat \in RoleStats(master_names[i]) \ {"NH", "PG"} :
              /\ \E s, t \in SourceLabels :
                    /\ Contributes(master_names[i], s, stat)
                    /\ Contributes(master_names[i], t, stat)
                    /\ ContributedValue(master_names[i], s, stat)
                          # ContributedValue(master_names[i], t, stat)
              /\ \E u \in FoundLabels :
                    /\ ~Unmatched(master_names[i], u)
                    /\ ~Contributes(master_names[i], u, stat)
              /\ rows[i][stat] * MeanDen(master_names[i], stat)
                    # MeanNum(master_names[i], stat)
              /\ rows[i][stat] # 0

(***************************************************************************)
(* Name matching in the aggregator                                         *)
(***************************************************************************)
Scores(name, candidates) ==
    {Similarity(name, candidates[i]) : i \in 1..Len(candidates)}

\* the highest score among the candidates, 0 when there is none to score
BestScore(name, candidates) ==
    IF candidates = <<>> THEN 0 ELSE
    CHOOSE m \in Scores(name, candidates) : \A n \in Scores(name, candidates) : n <= m

\* the sources as they would be with the rows of source s taken away
WithoutRowsOf(s) == [sources EXCEPT ![s].rows = <<>>]

\* C11: fuzzy_match_name finds no match exactly when there is no candidate or
\* the best score is below 88 (a best score of 88 is a match), and an
\* available source that does not match a player leaves the player's output
\* row as it would be without the rows of that source.
C11_NoMatchBelowThreshold ==
    \A i \in 1..Len(rows) : \A s \in FoundLabels :
        LET name == master_names[i]
            candidates == NameList(sources[s])
        IN  /\ ~fuzzy_match_name(name, candidates).matched
                  <=> (candidates = <<>> \/ BestScore(name, candidates) < 88)
            /\ Unmatched(name, s) =>
                  rows[i] = CombinedRow(WithoutRowsOf(s), available, weights, name)

\* one source's best candidate scores 87 and is not matched although it has
\* numbers for the player's role, another source's best scores exactly 88
\* and is matched, and a third has no row at all
C11_Witness ==
    /\ pc = "saved"
    /\ \E i \in 1..Len(rows) : \E s, t \in FoundLabels :
          /\ NameList(sources[s]) # <<>>
          /\ BestScore(master_names[i], NameList(sources[s])) = 87
          /\ Unmatched(master_names[i], s)
          /\ rows[i] # CombinedRow([sources EXCEPT ![s].rows =
                                       [k \in 1..Len(sources[s].rows) |->
                                           [sources[s].rows[k] EXCEPT !.Name = master_names[i]]]],
                                   available, weights, master_names[i])
          /\ NameList(sources[t]) # <<>>
          /\ BestScore(master_names[i], NameList(sources[t])) < 88
    /\ \E j \in 1..Len(rows) : \E t \in FoundLabels :
          /\ BestScore(master_names[j], NameList(sources[t])) = 88
          /\ ~Unmatched(master_names[j], t)
    /\ \E u \in FoundLabels : NameList(sources[u]) = <<>>

(***************************************************************************)
(* Role and position of an aggregated player                               *)
(***************************************************************************)
\* the row of source s that the name matches
MatchedRow(name, s) ==
    FirstRow(sources[s], fuzzy_match_name(name, NameList(sources[s])).name)

\* a source that matches the player tags the player as a pitcher, or
\* supplies the K_pitch column for the player's row
TaggedOrKPitch(name) ==
    \E s \in FoundLabels :
        /\ ~Unmatched(name, s)
        /\ \/ Get(MatchedRow(name, s), "Position", "") \in PitcherTags
           \/ "K_pitch" \in DOMAIN MatchedRow(name, s)

\* the role the loop body gives the player
ClassifiedPitcher(name) == IsPitcher(sources, name, infer_position(sources, name))

\* C12: a master-list player is classified as a pitcher exactly when some
\* source that matches the player has a tag in {SP, RP, P, PIT} for the
\* player or supplies the K_pitch column for the player's row.
C12_PitcherByTagOrKPitch ==
    \A i \in 1..Len(rows) :
        ClassifiedPitcher(master_names[i]) <=> TaggedOrKPitch(master_names[i])

\* the placeholder tags; an empty Position cell of a file is read as NaN
Placeholders == {"BAT", "PIT", "", NaNPosition}

\* the sources with a concrete tag for the name
ConcreteSources(name) ==
    {s \in SourceLabels :
        /\ HasPositionRow(sources, s, name)
        /\ FirstRow(sources[s], name).Position \notin Placeholders}

\* the first concrete tag in the order fp, fg, br, and OF when there is none
ResolvedPosition(name) ==
    IF ConcreteSources(name) = {} THEN "OF"
    ELSE FirstRow(sources[FirstSource(ConcreteSources(name))], name).Position

\* C13: the Position of every output row is the first concrete tag among the
\* sources in the order fp, fg, br, or OF when no source has one, so it is
\* never BAT, PIT or empty.
C13_PositionConcrete ==
    \A i \in 1..Len(rows) :
        /\ rows[i]["Position"] = ResolvedPosition(master_names[i])
        /\ rows[i]["Position"] \notin Placeholders

\* C14: in every output row, of a hitter or of a pitcher, CYC, GSHR, NH and PG
\* are 0 whatever the sources say.
C14_RareEventsZero ==
    \A i \in 1..Len(rows) :
        \A stat \in {"CYC", "GSHR", "NH", "PG"} : rows[i][stat] = 0

\* a pitcher whose matching source has a no-hitter, and a hitter, both saved
C14_Witness ==
    /\ pc = "saved"
    /\ \E i \in 1..Len(rows) :
          /\ ClassifiedPitcher(master_names[i])
          /\ \E s \in FoundLabels :
                /\ Contributes(master_names[i], s, "NH")
                /\ ContributedValue(master_names[i], s, "NH") > 0
          /\ out_csv.rows[i]["NH"] = 0
          /\ out_csv.rows[i]["IP"] > 0
    /\ \E j \in 1..Len(rows) :
          /\ ~ClassifiedPitcher(master_names[j])
          /\ \E s \in FoundLabels :
                /\ Contributes(master_names[j], s, "CYC")
                /\ ContributedValue(master_names[j], s, "CYC") > 0
          /\ out_csv.rows[j]["CYC"] = 0
          /\ out_csv.rows[j]["H"] > 0

(***************************************************************************)
(* Market ranking (src/src/rank.py): merge_adp, compute_value_score and    *)
(* build_draft_board, run by main on the table compute_vorp returns.  ADP  *)
(* counts hundredths like every other number.                              *)
(***************************************************************************)
\* Number of rows of the table handed to the ranking on its own (RankSpec).
MaxRankRows == 3
\* Number of rows of the table taken through the whole pipeline.
MaxPipelinePlayers == 2
\* Picks per round.  build_draft_board divides by 12, its league's number of
\* teams (rank.py:40); the model checks a round small enough for a table of
\* MaxRankRows rows to reach a second round.
PicksPerRound == 2

\* the ADP of a player the ADP table does not rank: 999.0
MissingADP == 99900

\* drop_duplicates that keeps every row
keep_duplicates(adp_rows) ==
    [k \in 1..Len(adp_rows) |->
        [Name |-> adp_rows[k].Name, ADP |-> adp_rows[k].ADP, first |-> TRUE]]

\* adp_df.drop_duplicates(subset="Name", keep="first")
drop_duplicates(adp_rows) ==
    SelectSeq([k \in 1..Len(adp_rows) |->
                  [Name |-> adp_rows[k].Name, ADP |-> adp_rows[k].ADP,
                   first |-> \A j \in 1..(k - 1) : adp_rows[j].Name # adp_rows[k].Name]],
              LAMBDA r : r.first)

\* the rows a left merge on Name makes of one row of the left table: one per
\* matching row of the right table, and one with a NaN when there is none
MergedRowsOf(r, adp_rows) ==
    LET hits == SelectSeq(adp_rows, LAMBDA a : a.Name = r.Name)
    IN  IF hits = <<>> THEN <<[row |-> r, ADP |-> NaN]>>
        ELSE [k \in 1..Len(hits) |-> [row |-> r, ADP |-> Num(hits[k].ADP)]]

\* df.merge(adp_df[["Name", "ADP"]], on="Name", how="left"): the rows of the
\* left table in their order
RECURSIVE LeftMerge(_, _)
LeftMerge(table, adp_rows) ==
    IF table = <<>> THEN <<>>
    ELSE MergedRowsOf(table[1], adp_rows) \o LeftMerge(Tail(table), adp_rows)

\* df["ADP"].fillna(999.0)
fillna(cell) == IF cell.nan THEN MissingADP ELSE cell.v

WithADP(r, adp) ==
    [Name |-> r.Name, Position |-> r.Position, projected_points |-> r.projected_points,
     VORP |-> r.VORP, ADP |-> adp]

\* The caller's table after merge_adp.  With the file found, "df" is rebound
\* to the merged table and the caller's stays as it was; without it, "df" is
\* still the caller's table when df["ADP"] = 999.0 adds the column to it.
merge_adp_arg(table, file) ==
    IF file.found THEN table
    ELSE [i \in 1..Len(table) |->
             [Name |-> table[i].Name, Position |-> table[i].Position,
              projected_points |-> table[i].projected_points, VORP |-> table[i].VORP,
              Best_Pos |-> table[i].Best_Pos, Eligibility |-> table[i].Eligibility,
              ADP |-> MissingADP]]

\* what merge_adp returns
merge_adp_df(table, file) ==
    IF file.found
    THEN LET merged == LeftMerge(table, drop_duplicates(file.rows))
         IN  [i \in 1..Len(merged) |-> WithADP(merged[i].row, fillna(merged[i].ADP))]
    ELSE [i \in 1..Len(table) |-> WithADP(table[i], MissingADP)]

\* Series.rank(ascending=False) with the default method "average", then
\* astype(int): the mean of the places of the tied rows, truncated
VorpRank(table, i) ==
    LET above == Cardinality({j \in 1..Len(table) : table[j].VORP > table[i].VORP})
        tied == Cardinality({j \in 1..Len(table) : table[j].VORP = table[i].VORP})
    IN  (2 * above + tied + 1) \div 2

\* Series.rank(ascending=True, method="first"), then astype(int)
AdpRankLast(table, i) ==
    Cardinality({j \in 1..Len(table) : table[j].ADP < table[i].ADP})
    + Cardinality({j \in i..Len(table) : table[j].ADP = table[i].ADP})

AdpRank(table, i) ==
    Cardinality({j \in 1..Len(table) : table[j].ADP < table[i].ADP})
    + Cardinality({j \in 1..i : table[j].ADP = table[i].ADP})

compute_value_score_df(table) ==
    [i \in 1..Len(table) |->
        [Name |-> table[i].Name, Position |-> table[i].Position,
         projected_points |-> table[i].projected_points,
         VORP |-> table[i].VORP, ADP |-> table[i].ADP,
         VORP_Rank |-> VorpRank(table, i), ADP_Rank |-> AdpRank(table, i),
         Value |-> AdpRank(table, i) - VorpRank(table, i)]]

\* the order by VORP alone
BeforeByVorp(a, b) == a.VORP > b.VORP

\* the order of sort_values(["VORP", "ADP"], ascending=[False, True])
Before(a, b) == a.VORP > b.VORP \/ (a.VORP = b.VORP /\ a.ADP < b.ADP)

\* The place of row i after the sort.  Sorting on two columns goes through
\* pandas' lexsort, which is stable: rows equal in both columns keep their
\* order.
SortedPlace(table, i) ==
    Cardinality({j \in 1..Len(table) : Before(table[j], table[i])})
    + Cardinality({j \in 1..i : ~Before(table[j], table[i]) /\ ~Before(table[i], table[j])})

SortedByVorpAdp(table) ==
    [k \in 1..Len(table) |->
        table[CHOOSE i \in 1..Len(table) : SortedPlace(table, i) = k]]

\* ((Draft_Rank - 1) // 12) + 1 counting the first pick as the second
EstRoundFromOne(draft_rank) == (draft_rank \div PicksPerRound) + 1

\* ((Draft_Rank - 1) // 12) + 1
EstRound(draft_rank) == ((draft_rank - 1) \div PicksPerRound) + 1

build_draft_board_df(table) ==
    LET sorted == SortedByVorpAdp(table)
    IN  [k \in 1..Len(sorted) |->
            [Draft_Rank |-> k, Name |-> sorted[k].Name, Position |-> sorted[k].Position,
             projected_points |-> sorted[k].projected_points, VORP |-> sorted[k].VORP,
             ADP |-> sorted[k].ADP, Value |-> sorted[k].Value,
             Est_Round |-> EstRound(k)]]

(***************************************************************************)
(* The inputs of the ranking: data/adp.csv, and the table of compute_vorp. *)
(***************************************************************************)
NoAdpFile == [found |-> FALSE, rows |-> <<>>]

AdpA == [Name |-> "a", ADP |-> 1000]
AdpALate == [Name |-> "a", ADP |-> 2500]
AdpB == [Name |-> "b", ADP |-> 1000]
AdpBLate == [Name |-> "b", ADP |-> 2500]

AdpFiles ==
    {NoAdpFile} \cup {[found |-> TRUE, rows |-> arows] :
                        arows \in {<<>>, <<AdpA>>, <<AdpBLate, AdpA>>, <<AdpA, AdpALate>>,
                                   <<AdpA, AdpB>>, <<AdpBLate, AdpA, AdpB>>}}

RankNames == {"a", "b", "c"}
RankVorps == {0, 50, 150}

\* a table as compute_vorp returns it: sorted by VORP, highest first
RankTables ==
    {t \in UNION {[1..n -> [Name : RankNames, VORP : RankVorps]] : n \in 0..MaxRankRows} :
        \A i \in 1..(Len(t) - 1) : t[i].VORP >= t[i + 1].VORP}

MakeRankTable(t) ==
    [i \in 1..Len(t) |->
        [Name |-> t[i].Name, Position |-> "OF", projected_points |-> t[i].VORP + 100,
         VORP |-> t[i].VORP, Best_Pos |-> "OF", Eligibility |-> <<"OF">>]]

RankInputs ==
    /\ adp_file \in AdpFiles
    /\ df_adp = <<>>
    /\ df_value = <<>>
    /\ board = <<>>

\* the ranking on its own, from a table compute_vorp has returned
RankInit ==
    /\ pc = "vorp"
    /\ df = <<>>
    /\ eligibility_file = NoFile
    /\ eligibility = <<>>
    /\ pos_pools = <<>>
    /\ replacement_levels = <<>>
    /\ vorp_list = <<>>
    /\ best_pos_list = <<>>
    /\ \E t \in RankTables : out = MakeRankTable(t)
    /\ prev = None
    /\ RankInputs
    /\ ScoringIdle
    /\ AggIdle
    /\ MainIdle

\* main from compute_vorp on
PipelineInit == ScarcityInputs(MaxPipelinePlayers) /\ RankInputs

merge_adp ==
    /\ pc = "vorp"
    /\ df_adp' = merge_adp_df(out, adp_file)
    /\ out' = merge_adp_arg(out, adp_file)
    /\ pc' = "adp"
    /\ UNCHANGED <<adp_file, df_value, board>>
    /\ UNCHANGED <<df, eligibility_file, eligibility, pos_pools, replacement_levels,
                   vorp_list, best_pos_list, prev>>
    /\ UNCHANGED <<scoringVars, aggVars>>
    /\ UNCHANGED mainVars

compute_value_score ==
    /\ pc = "adp"
    /\ df_value' = compute_value_score_df(df_adp)
    /\ pc' = "value"
    /\ UNCHANGED <<adp_file, df_adp, board>>
    /\ UNCHANGED <<scoringVars, scarcityVars, aggVars>>
    /\ UNCHANGED mainVars

build_draft_board ==
    /\ pc = "value"
    /\ board' = build_draft_board_df(df_value)
    /\ pc' = "board"
    /\ UNCHANGED <<adp_file, df_adp, df_value>>
    /\ UNCHANGED <<scoringVars, scarcityVars, aggVars>>
    /\ UNCHANGED mainVars

RankNext == merge_adp \/ compute_value_score \/ build_draft_board

RankSpec == RankInit /\ [][RankNext]_vars

PipelineNext == compute_vorp \/ merge_adp \/ compute_value_score \/ build_draft_board

PipelineSpec == PipelineInit /\ [][PipelineNext]_vars

(***************************************************************************)
(* Market ranking: the claims                                              *)
(***************************************************************************)
Merged == pc \in {"adp", "value", "board"}

InAdpTable(name) == \E k \in 1..Len(adp_file.rows) : adp_file.rows[k].Name = name

FirstAdpOf(name) ==
    adp_file.rows[CHOOSE k \in 1..Len(adp_file.rows) :
                     /\ adp_file.rows[k].Name = name
                     /\ \A j \in 1..(k - 1) : adp_file.rows[j].Name # name].ADP

\* C15: after merge_adp the table has the rows it had, in their order, each
\* with an ADP: the first entry of the player's name in the ADP table, 999
\* for a player the table does not have, and 999 for everyone when there is
\* no ADP table.
C15_EveryRowHasADP ==
    Merged =>
        /\ Len(df_adp) = Len(out)
        /\ \A i \in 1..Len(df_adp) :
              /\ df_adp[i].Name = out[i].Name
              /\ df_adp[i].VORP = out[i].VORP
              /\ df_adp[i].ADP =
                    IF adp_file.found /\ InAdpTable(out[i].Name)
                    THEN FirstAdpOf(out[i].Name)
                    ELSE 99900

\* the ADP table names a player twice, and the table of players has that
\* player and one the ADP table does not have
C15_Witness ==
    /\ pc = "adp"
    /\ adp_file.found
    /\ \E i, j \in 1..Len(df_adp) :
          /\ Cardinality({k \in 1..Len(adp_file.rows) :
                             adp_file.rows[k].Name = df_adp[i].Name}) = 2
          /\ df_adp[i].ADP = 1000
          /\ ~InAdpTable(df_adp[j].Name)
          /\ df_adp[j].ADP = 99900

Valued == pc \in {"value", "board"}

\* 1 plus the number of distinct VORP values above the row's own
DenseRank(table, i) ==
    1 + Cardinality({table[j].VORP : j \in {k \in 1..Len(table) : table[k].VORP > table[i].VORP}})

\* C16: VORP_Rank is the dense rank of VORP, highest first: 1 plus the number
\* of distinct VORP values above the player's own, so the ranks in use are
\* 1..k for k distinct VORP values.
C16_VorpRankDense ==
    Valued =>
        /\ \A i \in 1..Len(df_value) : df_value[i].VORP_Rank = DenseRank(df_adp, i)
        /\ {df_value[i].VORP_Rank : i \in 1..Len(df_value)}
              = 1..Cardinality({df_value[i].VORP : i \in 1..Len(df_value)})

\* C17: ADP_Rank is a bijection from the n players onto 1..n in the order of
\* ADP, lowest first, and players of equal ADP have consecutive ranks in
\* their row order.
C17_AdpRankFirst ==
    Valued =>
        /\ Len(df_value) = Len(df_adp)
        /\ {df_value[i].ADP_Rank : i \in 1..Len(df_value)} = 1..Len(df_value)
        /\ \A i, j \in 1..Len(df_value) :
              /\ df_value[i].ADP_Rank = df_value[j].ADP_Rank => i = j
              /\ df_value[i].ADP < df_value[j].ADP
                    => df_value[i].ADP_Rank < df_value[j].ADP_Rank
              /\ (df_value[i].ADP = df_value[j].ADP /\ i < j)
                    => df_value[j].ADP_Rank = df_value[i].ADP_Rank
                          + Cardinality({k \in (i + 1)..j : df_value[k].ADP = df_value[i].ADP})

\* two players at the sentinel after a ranked one, and two ranked ones tied
\* (the second "a" row takes the first ADP entry of "a")
C17_Witness ==
    /\ pc = "value"
    /\ Len(df_value) = 3
    /\ \E i, j, k \in 1..3 :
          /\ i < j
          /\ df_value[i].ADP = 99900 /\ df_value[j].ADP = 99900
          /\ df_value[k].ADP = 1000
          /\ df_value[k].ADP_Rank = 1
          /\ df_value[i].ADP_Rank = 2
          /\ df_value[j].ADP_Rank = 3

\* row k of the board is row i of the table build_draft_board was given
SameRow(k, i) ==
    /\ board[k].Name = df_value[i].Name
    /\ board[k].Position = df_value[i].Position
    /\ board[k].projected_points = df_value[i].projected_points
    /\ board[k].VORP = df_value[i].VORP
    /\ board[k].ADP = df_value[i].ADP
    /\ board[k].Value = df_value[i].Value

\* C18: the board is ordered by VORP, highest first, and by ADP, lowest
\* first, among equal VORP; Draft_Rank is the place in that order, from 1;
\* every player of the input is on the board once.
C18_BoardOrdered ==
    pc = "board" =>
        /\ Len(board) = Len(df_value)
        /\ \A k \in 1..Len(board) : board[k].Draft_Rank = k
        /\ \A k \in 1..(Len(board) - 1) :
              \/ board[k].VORP > board[k + 1].VORP
              \/ (board[k].VORP = board[k + 1].VORP /\ board[k].ADP <= board[k + 1].ADP)
        /\ \E f \in RowOrders(Len(board)) : \A k \in 1..Len(board) : SameRow(k, f[k])

\* two players of equal VORP came in with the later ADP first, and the board
\* has them the other way round, after a player of higher VORP
C18_Witness ==
    /\ pc = "board"
    /\ Len(board) = 3
    /\ df_value[2].VORP = df_value[3].VORP
    /\ df_value[2].ADP > df_value[3].ADP
    /\ df_value[1].VORP > df_value[2].VORP
    /\ SameRow(1, 1) /\ SameRow(2, 3) /\ SameRow(3, 2)
    /\ board[2].ADP < board[3].ADP

\* the number of board rows in a round
RoundCount(r) == Cardinality({k \in 1..Len(board) : board[k].Est_Round = r})

\* C19: Est_Round is ((Draft_Rank - 1) div picks per round) + 1, the ceiling
\* of Draft_Rank / picks per round; it is at least 1, does not decrease with
\* Draft_Rank, and no round has more players than picks.
C19_EstRoundCeiling ==
    pc = "board" =>
        /\ \A k \in 1..Len(board) :
              /\ board[k].Est_Round = ((board[k].Draft_Rank - 1) \div PicksPerRound) + 1
              /\ board[k].Est_Round * PicksPerRound >= board[k].Draft_Rank
              /\ (board[k].Est_Round - 1) * PicksPerRound < board[k].Draft_Rank
              /\ board[k].Est_Round >= 1
              /\ RoundCount(board[k].Est_Round) <= PicksPerRound
        /\ \A k, m \in 1..Len(board) :
              board[k].Draft_Rank <= board[m].Draft_Rank
                  => board[k].Est_Round <= board[m].Est_Round

\* a board whose first round is full and whose last player opens the second
C19_Witness ==
    /\ pc = "board"
    /\ Len(board) > PicksPerRound
    /\ RoundCount(1) = PicksPerRound
    /\ board[Len(board)].Est_Round = 2
    /\ board[1].Est_Round = 1

\* the board row of the player of row i of the input table (the names of an
\* input table are distinct)
BoardRowOf(i) == board[CHOOSE k \in 1..Len(board) : board[k].Name = df[i].Name]

\* C20: two players of equal VORP and equal ADP have their Draft_Ranks in the
\* order of their rows in the table handed to compute_vorp.
C20_TiesKeepInputOrder ==
    (pc = "board" /\ Len(df) = Len(board)) =>
        \A i, j \in 1..Len(df) :
            (/\ i < j
             /\ BoardRowOf(i).VORP = BoardRowOf(j).VORP
             /\ BoardRowOf(i).ADP = BoardRowOf(j).ADP)
                => BoardRowOf(i).Draft_Rank < BoardRowOf(j).Draft_Rank

(***************************************************************************)
(* Scarcity engine: eligibility, pools and best slot                       *)
(***************************************************************************)
Vorped == pc = "vorp"

\* C21 as stated: without an eligibility file every player is eligible for
\* the primary Position alone, and the VORP is points minus the replacement
\* level of that position (where the position has one).
C21_NoFileSinglePosition ==
    (Vorped /\ ~eligibility_file.found) =>
        /\ Len(out) = Len(df)
        /\ \A i \in 1..Len(df) :
              /\ AllPos(df, eligibility, i) = <<df[i].Position>>
              /\ df[i].Position \in DOMAIN STARTERS =>
                    vorp_list[i] = df[i].projected_points - replacement_levels[df[i].Position]

\* C21 amended: the VORP is that difference rounded to one decimal, and 0.0
\* when the primary Position is not a starter slot.
C21_NoFileSinglePositionRounded ==
    (Vorped /\ ~eligibility_file.found) =>
        /\ Len(out) = Len(df)
        /\ \A i \in 1..Len(df) :
              /\ AllPos(df, eligibility, i) = <<df[i].Position>>
              /\ best_pos_list[i] = df[i].Position
              /\ df[i].Position \in DOMAIN STARTERS =>
                    /\ vorp_list[i] % 10 = 0
                    /\ vorp_list[i] - (df[i].projected_points
                                          - replacement_levels[df[i].Position]) \in (0 - 5)..5
              /\ df[i].Position \notin DOMAIN STARTERS => vorp_list[i] = 0

\* no eligibility file, a player above the replacement level of the primary
\* position, and a player whose primary position is not a starter slot
C21_Witness ==
    /\ Vorped
    /\ ~eligibility_file.found
    /\ \E i, j \in 1..Len(df) :
          /\ df[i].Position \in DOMAIN STARTERS
          /\ vorp_list[i] > 0
          /\ df[j].Position \notin DOMAIN STARTERS
          /\ df[j].projected_points > 0

NoDuplicates(seq) == \A m, n \in 1..Len(seq) : seq[m] = seq[n] => m = n

\* the entries of seq other than x, in their order
Without(seq, x) == SelectSeq(seq, LAMBDA q : q # x)

\* C22: the eligibility list of every player starts with the primary Position
\* of the player's row, goes on with the other slots of the player's entry in
\* the order of the eligibility table, and has no slot twice.
C22_PrimaryFirst ==
    Vorped =>
        \A i \in 1..Len(df) :
            LET all_pos == AllPos(df, eligibility, i)
                extras == IF df[i].Name \in DOMAIN eligibility
                          THEN Without(eligibility[df[i].Name], df[i].Position)
                          ELSE <<>>
            IN  /\ all_pos # <<>>
                /\ all_pos[1] = df[i].Position
                /\ Tail(all_pos) = extras
                /\ NoDuplicates(all_pos)

\* the rows of the table eligible for a slot
EligibleRows(pos) == {i \in 1..Len(df) : pos \in Range(AllPos(df, eligibility, i))}

\* how often a value is in a pool, and how many eligible rows have it
TimesIn(pool, v) == Cardinality({k \in 1..Len(pool) : pool[k] = v})
EligibleWith(pos, v) == Cardinality({i \in EligibleRows(pos) : df[i].projected_points = v})

\* the pool of a slot holds the points of the rows eligible for it, each once
PoolIsEligibles(pos) ==
    /\ Len(pos_pools[pos]) = Cardinality(EligibleRows(pos))
    /\ \A i \in 1..Len(df) :
          TimesIn(pos_pools[pos], df[i].projected_points)
              = EligibleWith(pos, df[i].projected_points)

\* the level ReplacementLevel takes from a pool for n starters
IsLevelOf(level, pool, n) ==
    /\ Len(pool) >= n =>
          /\ level \in PoolMembers(pool)
          /\ CountAbove(pool, level) < n
          /\ CountAtLeast(pool, level) >= n
    /\ (0 < Len(pool) /\ Len(pool) < n) =>
          /\ level \in PoolMembers(pool)
          /\ \A v \in PoolMembers(pool) : level <= v
    /\ Len(pool) = 0 => level = 0

C24_EveryPoolIsEligibles ==
    Vorped => \A pos \in DOMAIN STARTERS : PoolIsEligibles(pos)

\* C24 amended: that holds of every starter slot but DH, whose pool is the
\* copy of the OF pool.
C24_PoolIsEligiblesButDh ==
    Vorped =>
        /\ \A pos \in DOMAIN STARTERS \ {"DH"} : PoolIsEligibles(pos)
        /\ pos_pools["DH"] = pos_pools["OF"]
        /\ DOMAIN pos_pools = DOMAIN STARTERS

\* a player eligible for three slots beside the primary position of the row,
\* in the pool of each of them, and a second player in one pool only
C24_Witness ==
    /\ Vorped
    /\ \E i, j \in 1..Len(df) :
          /\ i # j
          /\ Cardinality(Range(AllPos(df, eligibility, i)) \cap (DOMAIN STARTERS \ {"DH"})) >= 3
          /\ Len(AllPos(df, eligibility, j)) = 1
          /\ df[j].Position \in Range(AllPos(df, eligibility, i))
          /\ Len(pos_pools[df[j].Position]) = 2
          /\ df[i].projected_points # df[j].projected_points

(***************************************************************************)
(* The stages and the tables handed to them                                *)
(***************************************************************************)
\* C25: each stage leaves the table it is handed as it was: compute_vorp its
\* df (and the eligibility file), merge_adp the table of compute_vorp,
\* compute_value_score the table of merge_adp, build_draft_board the table
\* of compute_value_score.
C25_StagesLeaveInput ==
    [][/\ pc = "loaded" => (df' = df /\ eligibility_file' = eligibility_file)
       /\ pc = "vorp" => out' = out
       /\ pc = "adp" => df_adp' = df_adp
       /\ pc = "value" => df_value' = df_value]_vars

\* the place of a slot in the eligibility list of row i
PlaceOf(i, pos) ==
    CHOOSE k \in 1..Len(AllPos(df, eligibility, i)) : AllPos(df, eligibility, i)[k] = pos

\* the starter slots of row i that give the highest value
TopSlots(i) ==
    {pos \in StarterSlots(i) : \A q \in StarterSlots(i) : SlotValue(i, pos) >= SlotValue(i, q)}

\* C26: Best_Pos is in the player's eligibility list, which has the primary
\* Position in it, and of several slots giving the highest VORP it is the
\* first of the list.
C26_BestPosFirstOfTies ==
    Vorped =>
        \A i \in 1..Len(df) :
            /\ df[i].Position \in Range(AllPos(df, eligibility, i))
            /\ best_pos_list[i] \in Range(AllPos(df, eligibility, i))
            /\ StarterSlots(i) # {} =>
                  /\ best_pos_list[i] \in TopSlots(i)
                  /\ \A pos \in TopSlots(i) : PlaceOf(i, best_pos_list[i]) <= PlaceOf(i, pos)

\* two slots give a player the same, highest value; the first of them is
\* Best_Pos, after a slot of the list that gives less
C26_Witness ==
    /\ Vorped
    /\ \E i \in 1..Len(df) :
          /\ Cardinality(TopSlots(i)) >= 2
          /\ \E pos \in StarterSlots(i) : pos \notin TopSlots(i)
          /\ PlaceOf(i, best_pos_list[i]) > 1
          /\ \E pos \in TopSlots(i) : PlaceOf(i, pos) > PlaceOf(i, best_pos_list[i])

\* the table without row i
RemoveRow(table, i) ==
    [k \in 1..(Len(table) - 1) |-> IF k < i THEN table[k] ELSE table[k + 1]]

\* C27: a player none of whose eligible slots is a starter slot is in no pool
\* and moves no replacement level (pools and levels are those of the table
\* without the player), and has VORP 0.0 and the primary Position as
\* Best_Pos, whatever the points.
C27_NoStarterSlotNoVorp ==
    Vorped =>
        \A i \in 1..Len(df) :
            StarterSlots(i) = {} =>
                /\ vorp_list[i] = 0
                /\ best_pos_list[i] = df[i].Position
                /\ \A pos \in DOMAIN STARTERS : i \notin EligibleRows(pos)
                /\ pos_pools = BuildPools(RemoveRow(df, i), eligibility)
                /\ replacement_levels
                      = ReplacementLevels(BuildPools(RemoveRow(df, i), eligibility))

\* a player at P alone, with more points than a player who sets a
\* replacement level
C27_Witness ==
    /\ Vorped
    /\ \E i, j \in 1..Len(df) :
          /\ StarterSlots(i) = {}
          /\ df[i].Position = "P"
          /\ StarterSlots(j) # {}
          /\ df[i].projected_points > df[j].projected_points
          /\ \E pos \in StarterSlots(j) : replacement_levels[pos] = df[j].projected_points
          /\ vorp_list[i] = 0

\* the rows eligible for a slot whose VORP is not negative
NotBelow(pos) == {i \in EligibleRows(pos) : vorp_list[i] >= 0}

\* C28: a starter slot other than DH with at least starterCount players in
\* its pool has at least starterCount eligible players of VORP >= 0, and a
\* player of negative VORP is strictly below the replacement level of every
\* starter slot the player is eligible for.
C28_StartersNotNegative ==
    Vorped =>
        /\ \A pos \in DOMAIN STARTERS \ {"DH"} :
              Len(pos_pools[pos]) >= STARTERS[pos]
                  => Cardinality(NotBelow(pos)) >= STARTERS[pos]
        /\ \A i \in 1..Len(df) :
              vorp_list[i] < 0 =>
                  \A pos \in StarterSlots(i) :
                      df[i].projected_points < replacement_levels[pos]

\* a slot of two starters with three players in its pool, one of them of
\* negative VORP
C28_Witness ==
    /\ Vorped
    /\ \E pos \in DOMAIN STARTERS \ {"DH"} :
          /\ STARTERS[pos] >= 2
          /\ Len(pos_pools[pos]) > STARTERS[pos]
          /\ \E i \in EligibleRows(pos) : vorp_list[i] < 0
          /\ Cardinality(NotBelow(pos)) = STARTERS[pos]

(***************************************************************************)
(* main (src/main.py): the row scorer, exclusions and position overrides   *)
(***************************************************************************)
\* row = row.copy(); row["K"] = value
WithK(r, value) ==
    [c \in DOMAIN r \cup {"K"} |-> IF c = "K" THEN value ELSE r[c]]

\* calculate_points_row without the remap of K_pitch
calculate_points_row_plain(r) == calculate_points(r)

\* main's calculate_points_row
calculate_points_row(r) ==
    IF r["Position"] \in {"SP", "RP", "P"}
    THEN calculate_points(WithK(r, Get(r, "K_pitch", 0)))
    ELSE calculate_points(r)

\* the rows of the projections table: the scored rows, with or without a
\* K_pitch column
KPitchCells == {Absent, 205}

MainRows ==
    {IF kp = Absent THEN r
     ELSE [c \in DOMAIN r \cup {"K_pitch"} |-> IF c = "K_pitch" THEN kp ELSE r[c]] :
        r \in ScoringRows, kp \in KPitchCells}

MainScoringInit ==
    /\ pc = "row"
    /\ row \in MainRows
    /\ result = None
    /\ ScarcityIdle
    /\ AggIdle
    /\ RankIdle
    /\ MainIdle

\* df.apply(calculate_points_row, axis=1) on one row
ScoreRow ==
    /\ pc = "row"
    /\ result' = calculate_points_row(row)
    /\ pc' = "scored"
    /\ UNCHANGED row
    /\ UNCHANGED scarcityVars
    /\ UNCHANGED aggVars
    /\ UNCHANGED rankVars
    /\ UNCHANGED mainVars

MainScoringNext == ScoreRow

MainScoringSpec == MainScoringInit /\ [][MainScoringNext]_vars

\* the row without its K column
WithoutK(r) == [c \in DOMAIN r \ {"K"} |-> r[c]]

\* C29: a row at SP, RP or P is scored as the row with K_pitch (0 when the
\* row has none) in the K column, whatever its own K column holds or whether
\* it has one; a row at any other Position is scored as it is; and the row of
\* the table is left as it was.
C29_PitcherScoredWithKPitch ==
    [][pc = "row" =>
          /\ row' = row
          /\ row["Position"] \in {"SP", "RP", "P"} =>
                /\ result' = calculate_points(WithK(row, Get(row, "K_pitch", 0)))
                /\ result' = calculate_points(WithK(WithoutK(row), Get(row, "K_pitch", 0)))
          /\ row["Position"] \notin {"SP", "RP", "P"} => result' = calculate_points(row)]_vars

\* a pitcher row with a K column and a different K_pitch, scored with K_pitch
C29_Witness ==
    /\ pc = "scored"
    /\ row["Position"] = "RP"
    /\ {"K", "K_pitch"} \subseteq DOMAIN row
    /\ row["K"] # row["K_pitch"]
    /\ result.raised = "none"
    /\ result.value = PitcherPoints(row) - row["K"] + row["K_pitch"]
    /\ result.value # PitcherPoints(row)

(***************************************************************************)
(* main from read_csv to the board.  The projections table has up to       *)
(* MaxMainPlayers rows, each the base row of the scoring scenarios with a  *)
(* K_pitch column, at one of a few positions and with one of two H values. *)
(***************************************************************************)
\* Number of rows of data/projections.csv.
MaxMainPlayers == 2

MainPositions == {"C", "OF", "SP", "P"}
MainHits == {150, 160}

MainRow(name, pos, hits) ==
    LET r == MakeRow(pos, [BaseCell EXCEPT !["H"] = hits])
    IN  [c \in DOMAIN r \cup {"Name", "K_pitch"} |->
            IF c = "Name" THEN name ELSE IF c = "K_pitch" THEN 205 ELSE r[c]]

MainTables ==
    {[i \in 1..Len(cells) |-> MainRow(PlayerNames[i], cells[i][1], cells[i][2])] :
        cells \in UNION {[1..n -> MainPositions \X MainHits] : n \in 0..MaxMainPlayers}}

NoExclusionFile == [found |-> FALSE, names |-> <<>>]

ExclusionFiles ==
    {NoExclusionFile} \cup {[found |-> TRUE, names |-> names] :
                              names \in {<<>>, <<"a">>, <<"b", "z">>}}

NoOverrideFile == [found |-> FALSE, rows |-> <<>>]

OverrideFiles ==
    {NoOverrideFile} \cup
    {[found |-> TRUE, rows |-> orows] :
        orows \in {<<[Name |-> "a", Position |-> "C"]>>,
                   <<[Name |-> "b", Position |-> "C"], [Name |-> "b", Position |-> "RP"]>>,
                   <<[Name |-> "z", Position |-> "OF"], [Name |-> "a", Position |-> "SP"]>>}}

\* load_exclusions: the Name column, [] without the file
load_exclusions_names(file) == IF file.found THEN file.names ELSE <<>>

\* the filter of main that keeps every row
keep_excluded(table, excluded) == table

\* if excluded: df = df[~df["Name"].isin(excluded)].reset_index(drop=True)
drop_excluded(table, excluded) ==
    IF excluded = <<>> THEN table
    ELSE SelectSeq(table, LAMBDA r : r["Name"] \notin Range(excluded))

\* df.loc[mask, "Position"] = row["Position"] for one row of the override file
ApplyOverride(table, orow) ==
    [i \in 1..Len(table) |->
        IF table[i]["Name"] = orow.Name
        THEN [table[i] EXCEPT !["Position"] = orow.Position]
        ELSE table[i]]

\* the loop of apply_position_overrides over the first k rows of the file
RECURSIVE OverridesApplied(_, _, _)
OverridesApplied(table, orows, k) ==
    IF k = 0 THEN table
    ELSE ApplyOverride(OverridesApplied(table, orows, k - 1), orows[k])

apply_position_overrides_df(table, file) ==
    IF file.found THEN OverridesApplied(table, file.rows, Len(file.rows)) ELSE table

\* df["projected_points"] = df.apply(calculate_points_row, axis=1), the table
\* keeping the columns the later stages read
Scored(table) ==
    [i \in 1..Len(table) |->
        [Name |-> table[i]["Name"], Position |-> table[i]["Position"],
         projected_points |-> calculate_points_row(table[i]).value]]

MainInit ==
    /\ pc = "read"
    /\ projections \in MainTables
    /\ exclusion_file \in ExclusionFiles
    /\ override_file \in OverrideFiles
    /\ main_df = <<>>
    /\ df = <<>>
    /\ eligibility_file \in {NoFile, [found |-> TRUE, rows |-> <<ERowA1>>]}
    /\ eligibility = <<>>
    /\ pos_pools = <<>>
    /\ replacement_levels = <<>>
    /\ vorp_list = <<>>
    /\ best_pos_list = <<>>
    /\ out = <<>>
    /\ prev = None
    /\ adp_file = [found |-> TRUE, rows |-> <<AdpBLate, AdpA>>]
    /\ df_adp = <<>>
    /\ df_value = <<>>
    /\ board = <<>>
    /\ error = "none"
    /\ sources = <<>>
    /\ available = <<>>
    /\ weights = <<>>
    /\ master_names = <<>>
    /\ rows = <<>>
    /\ out_csv = [written |-> FALSE, rows |-> <<>>]
    /\ ScoringIdle

\* read_csv, load_exclusions and the filter
load_exclusions ==
    /\ pc = "read"
    /\ main_df' = drop_excluded(projections, load_exclusions_names(exclusion_file))
    /\ pc' = "excluded"
    /\ UNCHANGED <<projections, exclusion_file, override_file>>
    /\ UNCHANGED <<scoringVars, scarcityVars, aggVars, rankVars>>

apply_position_overrides ==
    /\ pc = "excluded"
    /\ main_df' = apply_position_overrides_df(main_df, override_file)
    /\ pc' = "overridden"
    /\ UNCHANGED <<projections, exclusion_file, override_file>>
    /\ UNCHANGED <<scoringVars, scarcityVars, aggVars, rankVars>>

\* The scoring of every row.  On a table without rows, DataFrame.apply gives
\* back an empty frame, not a column, and whether assigning it to
\* df["projected_points"] raises depends on the pandas at hand: both happen.
apply_calculate_points ==
    /\ pc = "overridden"
    /\ \/ /\ \A i \in 1..Len(main_df) : calculate_points_row(main_df[i]).raised = "none"
          /\ df' = Scored(main_df)
          /\ pc' = "loaded"
          /\ error' = error
       \/ /\ main_df = <<>>
          /\ df' = df
          /\ pc' = "failed"
          /\ error' = "ValueError"
    /\ UNCHANGED <<eligibility_file, eligibility, pos_pools, replacement_levels,
                   vorp_list, best_pos_list, out, prev>>
    /\ UNCHANGED <<sources, available, weights, master_names, rows, out_csv>>
    /\ UNCHANGED <<scoringVars, rankVars, mainVars>>

MainNext ==
    \/ load_exclusions
    \/ apply_position_overrides
    \/ apply_calculate_points
    \/ compute_vorp
    \/ merge_adp
    \/ compute_value_score
    \/ build_draft_board

MainSpec == MainInit /\ [][MainNext]_vars

(***************************************************************************)
(* C30                                                                     *)
(***************************************************************************)
\* the names of the exclusion file, none when the file is absent
ExcludedNames ==
    IF exclusion_file.found THEN Range(exclusion_file.names) ELSE {}

\* the rows of the projections whose player is not excluded, in file order
KeptRows == SelectSeq(projections, LAMBDA r : r["Name"] \notin ExcludedNames)

\* the rows of the override file for a player
OverrideRowsOf(name) ==
    IF override_file.found
    THEN {k \in 1..Len(override_file.rows) : override_file.rows[k].Name = name}
    ELSE {}

\* the Position a player is handled under: the last override row's, or the
\* projections' when the player has none
EffectivePosition(r) ==
    IF OverrideRowsOf(r["Name"]) = {} THEN r["Position"]
    ELSE override_file.rows[CHOOSE k \in OverrideRowsOf(r["Name"]) :
                               \A j \in OverrideRowsOf(r["Name"]) : j <= k].Position

\* the table the stages after scoring are owed: the kept rows, each at its
\* effective Position and with the points of a row at that Position
OwedTable ==
    [i \in 1..Len(KeptRows) |->
        LET r == [KeptRows[i] EXCEPT !["Position"] = EffectivePosition(KeptRows[i])]
        IN  [Name |-> r["Name"], Position |-> r["Position"],
             projected_points |-> calculate_points_row(r).value]]

NamesOf(table) == {table[i].Name : i \in 1..Len(table)}

\* C30: exclusions and position overrides take effect before scoring: the
\* scored table is the projections without the excluded players, each
\* remaining player at the overridden Position and scored under it; the pools
\* and replacement levels are built from that table; the board holds exactly
\* those players at those Positions; and with a file absent its step leaves
\* the table unchanged.
C30_ExclusionsAndOverridesFirst ==
    /\ pc = "excluded" /\ ~exclusion_file.found => main_df = projections
    /\ pc = "overridden" /\ ~override_file.found => main_df = KeptRows
    /\ pc \in {"loaded", "vorp", "adp", "value", "board"} => df = OwedTable
    /\ pc \in {"vorp", "adp", "value", "board"} =>
          /\ pos_pools = BuildPools(OwedTable, eligibility)
          /\ replacement_levels = ReplacementLevels(pos_pools)
          /\ \A pos \in DOMAIN pos_pools :
                \A i \in 1..Len(pos_pools[pos]) :
                    \E j \in 1..Len(OwedTable) :
                        /\ OwedTable[j].Name \notin ExcludedNames
                        /\ pos_pools[pos][i] = OwedTable[j].projected_points
          /\ NamesOf(out) \cap ExcludedNames = {}
    /\ pc = "board" =>
          /\ Len(board) = Len(OwedTable)
          /\ NamesOf(board) \cap ExcludedNames = {}
          /\ \A j \in 1..Len(OwedTable) :
                \E i \in 1..Len(board) :
                    /\ board[i].Name = OwedTable[j].Name
                    /\ board[i].Position = OwedTable[j].Position
                    /\ board[i].projected_points = OwedTable[j].projected_points

\* a board from projections with an excluded player and a player moved by an
\* override between the pitchers and the hitters
C30_Witness ==
    /\ pc = "board"
    /\ \E i \in 1..Len(projections) : projections[i]["Name"] \in ExcludedNames
    /\ \E i \in 1..Len(KeptRows) :
          /\ EffectivePosition(KeptRows[i]) # KeptRows[i]["Position"]
          /\ calculate_points_row(KeptRows[i]).value # OwedTable[i].projected_points
          /\ \E k \in 1..Len(board) :
                /\ board[k].Name = KeptRows[i]["Name"]
                /\ board[k].Position = EffectivePosition(KeptRows[i])

====
